---- MODULE Spec2Model ----
(***************************************************************************)
(* Capture-and-analyze pipeline of the emotion detection application:      *)
(* the App component (src/App.tsx), its auto-mode interval effect, the     *)
(* MediaAnalyzer interval effect (src/components/MediaAnalyzer.tsx), the   *)
(* image preprocessor compressImage and the classification client          *)
(* analyzeEmotion (src/services/geminiService.ts).                         *)
(*                                                                         *)
(* React commits a state update and runs the effects whose dependencies    *)
(* changed before the next timer period (2.5 s) or user event is           *)
(* delivered, so every handler below is one step that ends with Commit:    *)
(* the new state together with the effects it triggers.                    *)
(***************************************************************************)
EXTENDS Integers, Sequences, FiniteSets, TLC

\* ---------------------------------------------------------------- bounds
\* captures that may be started in the control specification
MaxCaptures == 3
\* captures that may be started in the long-run specification (past the cap)
MaxLongRun == 105
\* handleCapture invocations that may be pending at once
MaxInflight == 2
\* camera requests that may outlive their CameraView, settled or not
MaxStrayStreams == 1
\* object URLs that may exist unrevoked at once
MaxUrls == 2
\* in the long-run specification the user uploads or resets media before this
\* many results have arrived, or after the history has had time to fill
ResetWindow == 2
\* startCamera attempts of one CameraView
MaxAttempts == 3
\* captures taken when the content of the observations is followed
MaxObserved == 2
\* how far outside [0, 1] a score of the remote model may lie
OutOfRange == 1
\* source images are taken within this many pixels of the target width
SrcSpan == 50

\* ------------------------------------------------------ program constants
\* history: [...prev.history, result].slice(-100)
HISTORY_CAP == 100

NoError == "null"
\* the one message analyzeEmotion throws, whatever went wrong
AnalyzeFailedMsg == "Failed to analyze facial expression. Please try again."
NoEmotion == [timestamp |-> 0]
NoTimer == 0
NoUrl == 0
\* the guarded CameraView before it is mounted
NoCameraView ==
  [isActive |-> FALSE, permissionRequested |-> FALSE, error |-> "null",
   isRequesting |-> FALSE, stage |-> "idle", srcObject |-> FALSE,
   idealFailed |-> FALSE, fallbackFailed |-> FALSE, attempts |-> 0,
   replayPending |-> FALSE, evt |-> "none"]
\* no compressImage call observed
NoResize == [srcW |-> 0, srcH |-> 0, outW |-> 0, outH |-> 0]

VARIABLES
  state,          \* App state (useState<AppState>)
  autoModeTimer,  \* autoModeTimer.current (useRef), NoTimer for null
  timers,         \* intervals registered by the App auto-mode effect
  camera,         \* CameraView: "off", "requesting", "streaming", "denied"
  mediaDecoded,   \* the media element of MediaAnalyzer has decoded pixels
  isPlaying,      \* MediaAnalyzer local state
  mediaTimer,     \* MediaAnalyzer's interval is registered
  pending,        \* handleCapture invocations that have not returned
  now,            \* Date.now(), advanced at each receipt of a result
  lastEvt,        \* history variable: the last handler and autoMode before it
  quiet,          \* history variable: a capture failed and the user has not acted since
  sinceReset,     \* history variable: results received since history was last emptied
  cameraOrphans,  \* getUserMedia calls pending for a CameraView that has unmounted
  strayStreams,   \* camera streams that were obtained and that nothing will stop
  objectUrls,     \* object URLs created and not revoked
  resize,         \* compressImage: source and canvas dimensions of one call
  cameraView      \* the CameraView with the isRequestingRef guard: its state, refs and props

vars == <<state, autoModeTimer, timers, camera, mediaDecoded, isPlaying,
          mediaTimer, pending, now, lastEvt, quiet, sinceReset, cameraOrphans,
          strayStreams, objectUrls, resize, cameraView>>

\* ------------------------------------------------------------- helpers
Observation(t) == [timestamp |-> t]

Min(a, b) == IF a < b THEN a ELSE b

\* slip: slice(0, n) keeps the first n elements instead of the last n
SliceFirst(s, n) == SubSeq(s, 1, Min(Len(s), n))

\* Array.prototype.slice(-n): the last n elements
SliceLast(s, n) ==
  IF Len(s) <= n THEN s ELSE SubSeq(s, Len(s) - n + 1, Len(s))

\* slip: the result is appended and nothing is evicted
PushHistory_NoSlice(h, result) == Append(h, result)

\* [...prev.history, result].slice(-100)
PushHistory(h, result) == SliceLast(Append(h, result), HISTORY_CAP)

\* MediaAnalyzer is rendered iff mode is Media and a media URL is set
MediaMounted(s) == s.mode = "Media" /\ s.mediaUrl # NoUrl

TimerIds(ts) == {t.id : t \in ts}

\* window.setInterval returns an id not in use
FreshTimerId(ts, ref) ==
  CHOOSE i \in 1..(Cardinality(ts) + 2) : i \notin TimerIds(ts) \cup {ref}

ClearInterval(ts, id) == {t \in ts : t.id # id}

\* ------------------------------------------------ effects run at commit
\* slip: the interval callback captures without testing isAnalyzing
TimerMayFire_Unguarded(t) == TRUE

\* the callback registered by the auto-mode effect tests the isAnalyzing it
\* closed over: if (!state.isAnalyzing) triggerLiveCapture()
TimerMayFire(t) == ~t.isAnalyzing

\* slip: the effect returns no cleanup
AutoModeCleanup_Missing(ts, ref) == ts

\* cleanup of the auto-mode effect: if (autoModeTimer.current) clearInterval(...)
AutoModeCleanup(ts, ref) == IF ref # NoTimer THEN ClearInterval(ts, ref) ELSE ts

\* body of the auto-mode effect, run on the timers its cleanup left
AutoModeBody(new, ts, ref) ==
  IF new.mode = "Live" /\ new.autoMode
    THEN LET id == FreshTimerId(ts, ref)
         IN  [timers |-> ts \cup {[id |-> id, isAnalyzing |-> new.isAnalyzing]},
              ref |-> id]
    ELSE IF ref # NoTimer
      THEN [timers |-> ClearInterval(ts, ref), ref |-> ref]
      ELSE [timers |-> ts, ref |-> ref]

\* useEffect(..., [state.autoMode, state.isAnalyzing, state.mode])
AutoModeEffect(old, new, ts, ref) ==
  IF old.autoMode = new.autoMode /\ old.isAnalyzing = new.isAnalyzing
     /\ old.mode = new.mode
    THEN [timers |-> ts, ref |-> ref]
    ELSE AutoModeBody(new, AutoModeCleanup(ts, ref), ref)

\* MediaAnalyzer: useEffect(..., [type, isPlaying, isAnalyzing]); its cleanup
\* always clears the interval, its body registers one iff the condition holds
MediaIntervalEffect(new, playing) ==
  MediaMounted(new) /\ new.mediaType = "video" /\ playing /\ ~new.isAnalyzing

\* CameraView is rendered iff mode is Live; mounting it requests the camera,
\* unmounting it stops the stream
CameraAfter(old, new, cam) ==
  IF new.mode = "Live"
    THEN (IF old.mode = "Live" THEN cam ELSE "requesting")
    ELSE "off"

\* a state update followed by the render and the effects it triggers;
\* playing is the value of MediaAnalyzer's isPlaying after the handler
\* startCamera of a CameraView that unmounts while getUserMedia is pending:
\* the cleanup finds no stream to stop and the call stays pending
OrphanedRequests(old, new, cam) ==
  IF old.mode = "Live" /\ new.mode # "Live" /\ cam = "requesting" THEN 1 ELSE 0

Commit(new, playing) ==
  LET eff == AutoModeEffect(state, new, timers, autoModeTimer)
      stillMounted == MediaMounted(state) /\ MediaMounted(new)
      playingNow == IF MediaMounted(new) THEN (stillMounted /\ playing) ELSE FALSE
      orphaned == OrphanedRequests(state, new, camera)
  IN  /\ cameraOrphans + strayStreams + orphaned <= MaxStrayStreams
      /\ cameraOrphans' = cameraOrphans + orphaned
      /\ strayStreams' = strayStreams
      /\ state' = new
      /\ timers' = eff.timers
      /\ autoModeTimer' = eff.ref
      /\ camera' = CameraAfter(state, new, camera)
      /\ isPlaying' = playingNow
      /\ mediaTimer' = MediaIntervalEffect(new, playingNow)
      /\ mediaDecoded' = (stillMounted /\ state.mediaUrl = new.mediaUrl /\ mediaDecoded)

\* history variable: the handler that ran, autoMode before it ran, and (for a
\* completion) whether the input source was switched while the call was pending
\* and (for a completion) how the remote call settled
Evt(op) == [op |-> op, auto |-> state.autoMode, stale |-> FALSE, response |-> "none"]

MarkStale(p) == [i \in 1..Len(p) |-> [p[i] EXCEPT !.stale = TRUE]]

RemoveAt(s, i) == SubSeq(s, 1, i - 1) \o SubSeq(s, i + 1, Len(s))

\* ------------------------------------------------------------------ Init
InitApp ==
  /\ state = [mode |-> "Live", isAnalyzing |-> FALSE, history |-> <<>>,
              currentEmotion |-> NoEmotion, error |-> NoError, autoMode |-> FALSE,
              mediaUrl |-> NoUrl, mediaType |-> "null"]
  /\ autoModeTimer = NoTimer
  /\ timers = {}
  /\ camera = "requesting"
  /\ mediaDecoded = FALSE
  /\ isPlaying = FALSE
  /\ mediaTimer = FALSE
  /\ pending = <<>>
  /\ now = 0
  /\ lastEvt = [op |-> "init", auto |-> FALSE, stale |-> FALSE, response |-> "none"]
  /\ quiet = FALSE
  /\ sinceReset = 0
  /\ cameraOrphans = 0
  /\ strayStreams = 0
  /\ objectUrls = {}

Init == InitApp /\ resize = NoResize /\ cameraView = NoCameraView

\* ------------------------------------------------------ frame sources
\* canvas.toDataURL(...).split(',')[1] of a canvas sized from an element that
\* has no decoded frame (videoWidth = 0) is the empty string
LiveFrame == IF camera = "streaming" THEN "jpeg" ELSE "empty"

MediaFrame == IF mediaDecoded THEN "jpeg" ELSE "empty"

\* document.querySelector('video'): CameraView's video in Live mode, the
\* MediaAnalyzer's video (if it shows one) in Media mode
QueryVideo ==
  IF state.mode = "Live" THEN "camera"
  ELSE IF MediaMounted(state) /\ state.mediaType = "video" THEN "media"
  ELSE "none"

\* ------------------------------------------------------- handleCapture
\* slip: the entry update leaves the error banner up
CaptureBegun_KeepsError(prev) == [prev EXCEPT !.isAnalyzing = TRUE]

\* entry of handleCapture: setState(prev => ({...prev, isAnalyzing: true, error: null}))
CaptureBegun(prev) == [prev EXCEPT !.isAnalyzing = TRUE, !.error = NoError]

\* handleCapture up to its first await
BeginCapture(frame, trigger, B) ==
  /\ now + Len(pending) < B
  /\ Len(pending) < MaxInflight
  /\ pending' = Append(pending, [stage |-> "compress", frame |-> frame,
                                 stale |-> FALSE, trigger |-> trigger])
  /\ Commit(CaptureBegun(state), isPlaying)
  /\ now' = now

\* triggerLiveCapture
TriggerLiveCapture(trigger, B) ==
  CASE QueryVideo = "camera" -> BeginCapture(LiveFrame, trigger, B)
    [] QueryVideo = "media"  -> BeginCapture(MediaFrame, trigger, B)
    [] OTHER -> UNCHANGED <<cameraOrphans, strayStreams, state, autoModeTimer, timers, camera, mediaDecoded,
                            isPlaying, mediaTimer, pending, now>>

\* the Capture button: rendered in Live mode, disabled={state.isAnalyzing}
CaptureButtonEnabled == state.mode = "Live" /\ ~state.isAnalyzing

ManualLiveCapture(B) ==
  /\ CaptureButtonEnabled
  /\ TriggerLiveCapture("manual", B)
  /\ lastEvt' = Evt("ManualLiveCapture")
  /\ quiet' = FALSE
  /\ sinceReset' = sinceReset
  /\ UNCHANGED <<objectUrls, resize, cameraView>>

\* a period of an interval registered by the auto-mode effect elapses
LiveTimerTick(B) ==
  \E t \in timers :
    /\ IF TimerMayFire(t)
         THEN TriggerLiveCapture("liveTimer", B)
         ELSE UNCHANGED <<cameraOrphans, strayStreams, state, autoModeTimer, timers, camera, mediaDecoded,
                          isPlaying, mediaTimer, pending, now>>
    /\ lastEvt' = Evt("LiveTimerTick")
    /\ quiet' = quiet
    /\ sinceReset' = sinceReset
    /\ UNCHANGED <<objectUrls, resize, cameraView>>

\* compressImage: img.onload fires only for a decodable payload; there is no
\* onerror handler, so for any other payload the promise never settles
ImageLoads(frame) == frame = "jpeg"

CompressDone ==
  \E i \in 1..Len(pending) :
    /\ pending[i].stage = "compress"
    /\ ImageLoads(pending[i].frame)
    /\ pending' = [pending EXCEPT ![i].stage = "classify"]
    /\ lastEvt' = Evt("CompressDone")
    /\ UNCHANGED <<cameraOrphans, strayStreams, state, autoModeTimer, timers, camera, mediaDecoded, isPlaying,
                   mediaTimer, now, quiet>>
    /\ sinceReset' = sinceReset
    /\ UNCHANGED <<objectUrls, resize, cameraView>>

\* slip: the new result is put in front of the history
CaptureSucceeded_Prepends(prev, result) ==
  [prev EXCEPT !.isAnalyzing = FALSE,
               !.currentEmotion = result,
               !.history = SubSeq(<<result>> \o prev.history, 1,
                                  Min(Len(prev.history) + 1, HISTORY_CAP))]

\* slip: the success branch also switches auto mode off
CaptureSucceeded_StopsAuto(prev, result) ==
  [prev EXCEPT !.isAnalyzing = FALSE,
               !.currentEmotion = result,
               !.history = PushHistory(prev.history, result),
               !.autoMode = FALSE]

\* success branch of handleCapture, result stamped by analyzeEmotion
CaptureSucceeded(prev, result) ==
  [prev EXCEPT !.isAnalyzing = FALSE,
               !.currentEmotion = result,
               !.history = PushHistory(prev.history, result)]

\* slip: the catch branch leaves autoMode as it was
CaptureFailed_KeepsAuto(prev, message) ==
  [prev EXCEPT !.isAnalyzing = FALSE, !.error = message]

\* slip: the catch branch also drops the observation on display
CaptureFailed_DropsCurrent(prev, message) ==
  [prev EXCEPT !.isAnalyzing = FALSE, !.error = message, !.autoMode = FALSE,
               !.currentEmotion = NoEmotion]

\* catch branch of handleCapture
CaptureFailed(prev, message) ==
  [prev EXCEPT !.isAnalyzing = FALSE, !.error = message, !.autoMode = FALSE]

\* ------------------------------------------------------ analyzeEmotion
\* response.text as a sequence of tokens: a JSON object, line breaks, fence
\* delimiter lines (written ~~~ here), prose
JsonBody == <<"{observation}">>

Fenced(body) == <<"~~~", "json", "\n">> \o body \o <<"\n", "~~~">>

\* how ai.models.generateContent may settle: it rejects ("transport") or it
\* resolves with one of these texts
RemoteOutcomes == {"transport", "bare", "fenced", "prose"}

ResponseText(outcome) ==
  CASE outcome = "bare"   -> JsonBody
    [] outcome = "fenced" -> Fenced(JsonBody)
    [] OTHER              -> <<"Sorry,", "no", "face">>

IsWhitespace(tok) == tok = "\n"

RECURSIVE TrimLeft(_)
TrimLeft(text) ==
  IF text # <<>> /\ IsWhitespace(Head(text)) THEN TrimLeft(Tail(text)) ELSE text

RECURSIVE TrimRight(_)
TrimRight(text) ==
  IF text # <<>> /\ IsWhitespace(text[Len(text)])
    THEN TrimRight(SubSeq(text, 1, Len(text) - 1))
    ELSE text

\* JSON.parse(text) returns a value iff the text is one JSON value with
\* nothing but whitespace around it; otherwise it throws SyntaxError
JsonParses(text) ==
  LET t == TrimRight(TrimLeft(text))
  IN  Len(t) = 1 /\ t[1] = JsonBody[1]

\* analyzeEmotion: one try block around the call and the parse, one catch
\* that throws the same Error whatever was caught
AnalyzeEmotion(outcome, t) ==
  IF outcome # "transport" /\ JsonParses(ResponseText(outcome))
    THEN [ok |-> TRUE, value |-> Observation(t), message |-> NoError]
    ELSE [ok |-> FALSE, value |-> NoEmotion, message |-> AnalyzeFailedMsg]

ClassifySuccess ==
  \E i \in 1..Len(pending), r \in RemoteOutcomes :
    /\ pending[i].stage = "classify"
    /\ AnalyzeEmotion(r, now + 1).ok
    /\ now' = now + 1
    /\ pending' = RemoveAt(pending, i)
    /\ Commit(CaptureSucceeded(state, AnalyzeEmotion(r, now + 1).value), isPlaying)
    /\ lastEvt' = [Evt("ClassifySuccess") EXCEPT !.stale = pending[i].stale,
                                                 !.response = r]
    /\ quiet' = quiet
    /\ sinceReset' = sinceReset + 1
    /\ UNCHANGED <<objectUrls, resize, cameraView>>

ClassifyFail ==
  \E i \in 1..Len(pending), r \in RemoteOutcomes :
    /\ pending[i].stage = "classify"
    /\ ~AnalyzeEmotion(r, now + 1).ok
    /\ pending' = RemoveAt(pending, i)
    /\ Commit(CaptureFailed(state, AnalyzeEmotion(r, now + 1).message), isPlaying)
    /\ lastEvt' = [Evt("ClassifyFail") EXCEPT !.stale = pending[i].stale,
                                              !.response = r]
    /\ quiet' = TRUE
    /\ now' = now
    /\ sinceReset' = sinceReset
    /\ UNCHANGED <<objectUrls, resize, cameraView>>

\* ------------------------------------------- content of an observation
\* EMOTION_SCHEMA: the declared properties and the required ones
SchemaProperties == {"primaryEmotion", "confidence", "secondaryEmotions", "description"}

SchemaRequired == {"primaryEmotion", "confidence", "secondaryEmotions", "description"}

\* confidence and intensity are Type.NUMBER with no range in the schema
Scores == (0 - OutOfRange)..(1 + OutOfRange)

\* fields of EmotionData that the schema does not declare; the remote model
\* may leave each of them out or send it
UndeclaredFields ==
  {<<>>} \cup {[faceDetected |-> d] : d \in {"true", "false"}}
         \cup {[faceRecognitionScore |-> 1]}
         \cup {[faceDetected |-> d, faceRecognitionScore |-> 1] : d \in {"true", "false"}}

\* the objects response.text may parse to: every required property present
Responses ==
  {extra @@ [primaryEmotion |-> "Happy", confidence |-> c,
             secondaryEmotions |-> <<[emotion |-> "Sad", intensity |-> i]>>,
             description |-> "text"] :
     extra \in UndeclaredFields, c \in Scores, i \in Scores}

\* return { ...result, timestamp: Date.now() }
StampedResult(result, t) == [timestamp |-> t] @@ result

\* handleCapture's success branch for a response with this content
ClassifyObject ==
  \E i \in 1..Len(pending), result \in Responses :
    /\ pending[i].stage = "classify"
    /\ now' = now + 1
    /\ pending' = RemoveAt(pending, i)
    /\ Commit(CaptureSucceeded(state, StampedResult(result, now + 1)), isPlaying)
    /\ lastEvt' = [Evt("ClassifyObject") EXCEPT !.stale = pending[i].stale,
                                                !.response = "bare"]
    /\ quiet' = quiet
    /\ sinceReset' = sinceReset + 1
    /\ UNCHANGED <<objectUrls, resize, cameraView>>

\* ------------------------------------------------------- App handlers
\* the Auto-Scan button, rendered in Live mode
ToggleAutoMode ==
  /\ state.mode = "Live"
  /\ Commit([state EXCEPT !.autoMode = ~state.autoMode], isPlaying)
  /\ lastEvt' = Evt("ToggleAutoMode")
  /\ quiet' = FALSE
  /\ UNCHANGED <<pending, now>>
  /\ sinceReset' = sinceReset
  /\ UNCHANGED <<objectUrls, resize, cameraView>>

\* the Live and Media buttons: setState(prev => ({...prev, mode: m}))
ModeButton(prev, m) == [prev EXCEPT !.mode = m]

SetMode ==
  \E m \in {"Live", "Media"} :
    /\ Commit(ModeButton(state, m), isPlaying)
    /\ pending' = IF m # state.mode THEN MarkStale(pending) ELSE pending
    /\ lastEvt' = Evt("SetMode")
    /\ quiet' = FALSE
    /\ UNCHANGED now
    /\ sinceReset' = sinceReset
    /\ UNCHANGED <<objectUrls, resize, cameraView>>

\* URL.createObjectURL(file): a URL that is not in use
NewObjectUrl(urls) == CHOOSE u \in 1..(Cardinality(urls) + 1) : u \notin urls

\* URL.revokeObjectURL(url)
RevokeObjectUrl(urls, url) == urls \ {url}

\* slip: an upload also switches auto mode off
FileUploaded_StopsAuto(prev, url, type) ==
  [prev EXCEPT !.mode = "Media", !.mediaUrl = url, !.mediaType = type,
               !.currentEmotion = NoEmotion, !.history = <<>>, !.autoMode = FALSE]

\* handleFileUpload with a file selected
FileUploaded(prev, url, type) ==
  [prev EXCEPT !.mode = "Media", !.mediaUrl = url, !.mediaType = type,
               !.currentEmotion = NoEmotion, !.history = <<>>]

HandleFileUpload(allowed) ==
  \E file \in {"none", "image", "video"} :
    /\ allowed
    /\ IF file = "none"
         THEN UNCHANGED <<cameraOrphans, strayStreams, state, autoModeTimer, timers, camera, mediaDecoded,
                          isPlaying, mediaTimer, pending, objectUrls>>
         ELSE /\ Cardinality(objectUrls) < MaxUrls
              /\ Commit(FileUploaded(state, NewObjectUrl(objectUrls), file),
                        isPlaying)
              /\ objectUrls' = objectUrls \cup {NewObjectUrl(objectUrls)}
              /\ pending' = MarkStale(pending)
    /\ lastEvt' = Evt("HandleFileUpload")
    /\ quiet' = FALSE
    /\ UNCHANGED now
    /\ sinceReset' = IF file = "none" THEN sinceReset ELSE 0
    /\ UNCHANGED <<resize, cameraView>>

\* slip: resetMedia also takes the error banner down
MediaReset_ClearsError(prev) ==
  [prev EXCEPT !.mediaUrl = NoUrl, !.mediaType = "null",
               !.currentEmotion = NoEmotion, !.history = <<>>, !.error = NoError]

\* resetMedia, the Change Media button of MediaAnalyzer
MediaReset(prev) ==
  [prev EXCEPT !.mediaUrl = NoUrl, !.mediaType = "null",
               !.currentEmotion = NoEmotion, !.history = <<>>]

ResetMedia(allowed) ==
  /\ allowed
  /\ MediaMounted(state)
  /\ Commit(MediaReset(state), isPlaying)
  /\ objectUrls' = IF state.mediaUrl # NoUrl
                     THEN RevokeObjectUrl(objectUrls, state.mediaUrl)
                     ELSE objectUrls
  /\ UNCHANGED <<resize, cameraView>>
  /\ pending' = MarkStale(pending)
  /\ lastEvt' = Evt("ResetMedia")
  /\ quiet' = FALSE
  /\ UNCHANGED now
  /\ sinceReset' = 0

\* slip: Clear History empties the list and leaves the observation on display
HistoryCleared_KeepsCurrent(prev) == [prev EXCEPT !.history = <<>>]

\* the Clear History button: setState(prev => ({...prev, history: [], currentEmotion: null}))
HistoryCleared(prev) == [prev EXCEPT !.history = <<>>, !.currentEmotion = NoEmotion]

\* the button is rendered while history is not empty
ClearHistory ==
  /\ Len(state.history) > 0
  /\ Commit(HistoryCleared(state), isPlaying)
  /\ lastEvt' = Evt("ClearHistory")
  /\ quiet' = FALSE
  /\ sinceReset' = 0
  /\ UNCHANGED <<pending, now, objectUrls, resize, cameraView>>

\* ------------------------------------------------------- MediaAnalyzer
\* the <img> or <video> of MediaAnalyzer finishes decoding its source
MediaLoaded ==
  /\ MediaMounted(state)
  /\ ~mediaDecoded
  /\ mediaDecoded' = TRUE
  /\ lastEvt' = Evt("MediaLoaded")
  /\ UNCHANGED <<cameraOrphans, strayStreams, state, autoModeTimer, timers, camera, isPlaying, mediaTimer,
                 pending, now, quiet>>
  /\ sinceReset' = sinceReset
  /\ UNCHANGED <<objectUrls, resize, cameraView>>

\* onPlay / onPause of the <video>: setIsPlaying
VideoPlayPause ==
  /\ MediaMounted(state)
  /\ state.mediaType = "video"
  /\ Commit(state, ~isPlaying)
  /\ lastEvt' = Evt("VideoPlayPause")
  /\ quiet' = FALSE
  /\ UNCHANGED <<pending, now>>
  /\ sinceReset' = sinceReset
  /\ UNCHANGED <<objectUrls, resize, cameraView>>

\* the Analyze Selection button: rendered for type image while not analyzing
AnalyzeButtonShown ==
  MediaMounted(state) /\ state.mediaType = "image" /\ ~state.isAnalyzing

AnalyzeSelection(B) ==
  /\ AnalyzeButtonShown
  /\ BeginCapture(MediaFrame, "manual", B)
  /\ lastEvt' = Evt("AnalyzeSelection")
  /\ quiet' = FALSE
  /\ sinceReset' = sinceReset
  /\ UNCHANGED <<objectUrls, resize, cameraView>>

\* a period of MediaAnalyzer's interval elapses: captureFrame()
MediaTimerTick(B) ==
  /\ mediaTimer
  /\ BeginCapture(MediaFrame, "mediaTimer", B)
  /\ lastEvt' = Evt("MediaTimerTick")
  /\ quiet' = quiet
  /\ sinceReset' = sinceReset
  /\ UNCHANGED <<objectUrls, resize, cameraView>>

\* ---------------------------------------------------------- CameraView
\* getUserMedia resolves and the stream is attached to the video element
CameraGranted ==
  /\ camera = "requesting"
  /\ camera' = "streaming"
  /\ lastEvt' = Evt("CameraGranted")
  /\ UNCHANGED <<cameraOrphans, strayStreams, state, autoModeTimer, timers, mediaDecoded, isPlaying,
                 mediaTimer, pending, now, quiet>>
  /\ sinceReset' = sinceReset
  /\ UNCHANGED <<objectUrls, resize, cameraView>>

\* getUserMedia rejects
CameraDenied ==
  /\ camera = "requesting"
  /\ camera' = "denied"
  /\ lastEvt' = Evt("CameraDenied")
  /\ UNCHANGED <<cameraOrphans, strayStreams, state, autoModeTimer, timers, mediaDecoded, isPlaying,
                 mediaTimer, pending, now, quiet>>
  /\ sinceReset' = sinceReset
  /\ UNCHANGED <<objectUrls, resize, cameraView>>

\* getUserMedia of an unmounted CameraView settles: a stream it resolves with
\* is assigned after the cleanup has run and is attached to nothing
OrphanCameraSettles ==
  \E granted \in BOOLEAN :
    /\ cameraOrphans > 0
    /\ cameraOrphans' = cameraOrphans - 1
    /\ strayStreams' = strayStreams + (IF granted THEN 1 ELSE 0)
    /\ lastEvt' = Evt("OrphanCameraSettles")
    /\ UNCHANGED <<state, autoModeTimer, timers, camera, mediaDecoded, isPlaying,
                   mediaTimer, pending, now, quiet, sinceReset, objectUrls, resize,
                   cameraView>>

\* ------------------------------------------------------- compressImage
\* the maxWidth argument of compressImage (its default, and what App passes)
maxWidth == 512

\* a JavaScript number is an IEEE-754 double: 53 significant bits. A double
\* is modelled as [bits, scale]: the integer written by bits (most
\* significant first) divided by 2^scale
MantissaBits == 53

\* the arithmetic is carried out on limbs of this many bits
LimbBits == 16

RECURSIVE Pow2(_)
Pow2(n) == IF n = 0 THEN 1 ELSE 2 * Pow2(n - 1)

\* the binary digits of n, without leading zeros
RECURSIVE IntBits(_)
IntBits(n) == IF n = 0 THEN <<>> ELSE IntBits(n \div 2) \o <<n % 2>>

\* the k low binary digits of n
RECURSIVE LimbDigits(_, _)
LimbDigits(n, k) ==
  IF k = 0 THEN <<>> ELSE LimbDigits(n \div 2, k - 1) \o <<n % 2>>

RECURSIVE BitsToInt(_)
BitsToInt(bits) ==
  IF bits = <<>> THEN 0
  ELSE 2 * BitsToInt(SubSeq(bits, 1, Len(bits) - 1)) + bits[Len(bits)]

RECURSIVE IncBits(_)
IncBits(bits) ==
  IF bits = <<>> THEN <<1>>
  ELSE IF bits[Len(bits)] = 0
    THEN SubSeq(bits, 1, Len(bits) - 1) \o <<1>>
    ELSE IncBits(SubSeq(bits, 1, Len(bits) - 1)) \o <<0>>

\* round to nearest, ties to even: keep is the retained significand, rest the
\* bits that are dropped
RoundsUp(keep, rest) ==
  /\ rest # <<>>
  /\ rest[1] = 1
  /\ \/ \E i \in 2..Len(rest) : rest[i] = 1
     \/ keep[Len(keep)] = 1

RoundHalfEven(keep, rest) == IF RoundsUp(keep, rest) THEN IncBits(keep) ELSE keep

\* the double nearest to an exact binary value whose first bit is 1
RoundToDouble(x) ==
  IF Len(x.bits) <= MantissaBits THEN x
  ELSE [bits  |-> RoundHalfEven(SubSeq(x.bits, 1, MantissaBits),
                                SubSeq(x.bits, MantissaBits + 1, Len(x.bits))),
        scale |-> x.scale - (Len(x.bits) - MantissaBits)]

\* n quotient bits of a / b for a < b, a limb at a time, followed by a
\* sticky bit that tells whether a remainder is left after them
RECURSIVE DivBits(_, _, _)
DivBits(a, b, n) ==
  IF n = 0 THEN <<IF a # 0 THEN 1 ELSE 0>>
  ELSE LimbDigits((a * Pow2(Min(n, LimbBits))) \div b, Min(n, LimbBits))
         \o DivBits((a * Pow2(Min(n, LimbBits))) % b, b, n - Min(n, LimbBits))

\* zeros between the binary point and the first 1 of a / b, for 0 < a < b
RECURSIVE LeadingZeros(_, _)
LeadingZeros(a, b) == IF 2 * a >= b THEN 0 ELSE 1 + LeadingZeros(2 * a, b)

\* a / b in double arithmetic for integers 0 < a < b: one bit more than the
\* significand and the sticky bit, then rounded
DoubleDiv(a, b) ==
  RoundToDouble([bits  |-> DivBits(a * Pow2(LeadingZeros(a, b)), b, MantissaBits + 1),
                 scale |-> LeadingZeros(a, b) + MantissaBits + 2])

\* the lowest limb of a bit sequence and what is above it
LowLimb(bits) == SubSeq(bits, Len(bits) - Min(Len(bits), LimbBits) + 1, Len(bits))

AboveLowLimb(bits) == SubSeq(bits, 1, Len(bits) - Min(Len(bits), LimbBits))

\* bits * h + carry, exactly, a limb at a time
RECURSIVE MulBits(_, _, _)
MulBits(bits, h, carry) ==
  IF bits = <<>> THEN IntBits(carry)
  ELSE MulBits(AboveLowLimb(bits), h,
               (BitsToInt(LowLimb(bits)) * h + carry) \div Pow2(Len(LowLimb(bits))))
         \o LimbDigits((BitsToInt(LowLimb(bits)) * h + carry) % Pow2(Len(LowLimb(bits))),
                       Len(LowLimb(bits)))

\* x * h in double arithmetic for a double x and an integer h > 0
DoubleMul(x, h) ==
  RoundToDouble([bits |-> MulBits(x.bits, h, 0), scale |-> x.scale])

\* canvas.height = x: the conversion to unsigned long drops the fraction
ToUnsignedLong(x) ==
  IF Len(x.bits) <= x.scale THEN 0
  ELSE BitsToInt(SubSeq(x.bits, 1, Len(x.bits) - x.scale))

\* height = (maxWidth / width) * height, then canvas.height = height
ScaledHeight(width, height, maxW) ==
  ToUnsignedLong(DoubleMul(DoubleDiv(maxW, width), height))

\* the canvas size compressImage draws the image into
CanvasSize(width, height, maxW) ==
  IF width > maxW
    THEN [width |-> maxW, height |-> ScaledHeight(width, height, maxW)]
    ELSE [width |-> width, height |-> height]

\* decoded images handed to compressImage
SourceSizes == (maxWidth - SrcSpan)..(maxWidth + SrcSpan)

InitCompress ==
  /\ InitApp
  /\ cameraView = NoCameraView
  /\ resize \in {[srcW |-> w, srcH |-> h, outW |-> 0, outH |-> 0] :
                   w \in SourceSizes, h \in SourceSizes}

\* img.onload of compressImage for a decoded image
CompressImage ==
  /\ resize.srcW # 0
  /\ resize.outW = 0
  /\ resize' = [resize EXCEPT
                  !.outW = CanvasSize(resize.srcW, resize.srcH, maxWidth).width,
                  !.outH = CanvasSize(resize.srcW, resize.srcH, maxWidth).height]
  /\ UNCHANGED <<state, autoModeTimer, timers, camera, mediaDecoded, isPlaying,
                 mediaTimer, pending, now, lastEvt, quiet, sinceReset,
                 cameraOrphans, strayStreams, objectUrls, cameraView>>


\* ------------------------------------- CameraView with isRequestingRef
\* the names getUserMedia rejects with, and those video.play() rejects with
AcquireErrors == {"NotAllowedError", "NotFoundError", "NotReadableError", "OverconstrainedError"}

PlayErrors == {"NotAllowedError", "AbortError"}

\* the message startCamera's catch sets for an exception of this name
CameraErrorMessage(name) ==
  CASE name \in {"NotAllowedError", "PermissionDeniedError"} -> "Camera access is blocked by your browser."
    [] name \in {"NotFoundError", "DevicesNotFoundError"}    -> "No camera hardware was detected."
    [] name \in {"NotReadableError", "TrackStartError"}      -> "Camera is already in use by another application."
    [] OTHER                                                 -> "Unable to access camera"

\* stopCamera: the tracks of the attached stream are stopped, srcObject = null
StopCamera(cv) == [cv EXCEPT !.srcObject = FALSE]

\* startCamera up to its first await
StartCamera(cv) ==
  IF cv.isRequesting THEN cv
  ELSE [cv EXCEPT !.error = "null", !.permissionRequested = TRUE, !.isRequesting = TRUE,
                  !.stage = "ideal", !.idealFailed = FALSE, !.fallbackFailed = FALSE,
                  !.attempts = @ + 1]

\* finally { isRequestingRef.current = false }
AttemptEnds(cv) == [cv EXCEPT !.isRequesting = FALSE, !.stage = "idle"]

\* the outer catch of startCamera, then its finally
AttemptFails(cv, name) == AttemptEnds([cv EXCEPT !.error = CameraErrorMessage(name)])

\* the camera effect with dependency [isActive]: its body
CameraEffectBody(cv, permissionSeen) ==
  IF cv.isActive /\ ~permissionSeen THEN StartCamera(cv) ELSE cv

\* the component is mounted with isActive true or false and its effect runs;
\* under React.StrictMode the effect is cleaned up and run once more
InitCamera ==
  /\ InitApp
  /\ resize = NoResize
  /\ cameraView \in
       {[CameraEffectBody([NoCameraView EXCEPT !.isActive = a], FALSE)
           EXCEPT !.replayPending = strict, !.evt = "mount"] :
          a \in BOOLEAN, strict \in BOOLEAN}

CameraStep(cv, op) ==
  /\ cameraView' = [cv EXCEPT !.evt = op]
  /\ UNCHANGED <<state, autoModeTimer, timers, camera, mediaDecoded, isPlaying,
                 mediaTimer, pending, now, lastEvt, quiet, sinceReset,
                 cameraOrphans, strayStreams, objectUrls, resize>>

\* StrictMode's second run of the mount effect: cleanup, then the body with
\* the permissionRequested of the first render
EffectReplayed ==
  /\ cameraView.replayPending
  /\ CameraStep([CameraEffectBody(StopCamera(cameraView), FALSE)
                   EXCEPT !.replayPending = FALSE], "EffectReplayed")

\* the parent changes the isActive prop: cleanup, then the body
SetActive ==
  /\ ~cameraView.replayPending
  /\ CameraStep(CameraEffectBody([StopCamera(cameraView) EXCEPT !.isActive = ~@],
                                 cameraView.permissionRequested), "SetActive")

\* the Retry button of the error overlay and the Enable Camera button
RetryShown(cv) == cv.error # "null" \/ (~cv.permissionRequested /\ cv.isActive)

\* handleManualRetry
HandleManualRetry ==
  /\ ~cameraView.replayPending
  /\ RetryShown(cameraView)
  /\ cameraView.attempts < MaxAttempts
  /\ CameraStep(StartCamera(StopCamera(cameraView)), "HandleManualRetry")

\* getUserMedia with the ideal constraints settles
IdealSettles ==
  \E ok \in BOOLEAN :
    /\ ~cameraView.replayPending
    /\ cameraView.stage = "ideal"
    /\ CameraStep(IF ok THEN [cameraView EXCEPT !.srcObject = TRUE, !.stage = "play"]
                  ELSE [cameraView EXCEPT !.idealFailed = TRUE, !.stage = "fallback"],
                  "IdealSettles")

\* getUserMedia with { video: true } settles
FallbackSettles ==
  \E ok \in BOOLEAN, name \in AcquireErrors :
    /\ ~cameraView.replayPending
    /\ cameraView.stage = "fallback"
    /\ CameraStep(IF ok THEN [cameraView EXCEPT !.srcObject = TRUE, !.stage = "play"]
                  ELSE AttemptFails([cameraView EXCEPT !.fallbackFailed = TRUE], name),
                  "FallbackSettles")

\* await videoRef.current.play() settles
PlaySettles ==
  \E ok \in BOOLEAN, name \in PlayErrors :
    /\ ~cameraView.replayPending
    /\ cameraView.stage = "play"
    /\ CameraStep(IF ok THEN AttemptEnds(cameraView) ELSE AttemptFails(cameraView, name),
                  "PlaySettles")

NextCamera ==
  \/ EffectReplayed
  \/ SetActive
  \/ HandleManualRetry
  \/ IdealSettles
  \/ FallbackSettles
  \/ PlaySettles

SpecCamera == InitCamera /\ [][NextCamera]_vars

\* ------------------------------------------------------ specifications
Next ==
  \/ ManualLiveCapture(MaxCaptures)
  \/ LiveTimerTick(MaxCaptures)
  \/ AnalyzeSelection(MaxCaptures)
  \/ MediaTimerTick(MaxCaptures)
  \/ CompressDone
  \/ ClassifySuccess
  \/ ClassifyFail
  \/ ToggleAutoMode
  \/ SetMode
  \/ HandleFileUpload(TRUE)
  \/ ResetMedia(TRUE)
  \/ MediaLoaded
  \/ VideoPlayPause
  \/ CameraGranted
  \/ CameraDenied
  \/ OrphanCameraSettles

Spec == Init /\ [][Next]_vars

\* the same program run long enough to overflow the history cap: the live
\* capture path with every handler that changes history, mode or autoMode
InResetWindow == now < ResetWindow \/ now >= HISTORY_CAP

NextLong ==
  \/ ManualLiveCapture(MaxLongRun)
  \/ LiveTimerTick(MaxLongRun)
  \/ CompressDone
  \/ ClassifySuccess
  \/ ClassifyFail
  \/ ToggleAutoMode
  \/ (InResetWindow /\ SetMode)
  \/ HandleFileUpload(InResetWindow)
  \/ ResetMedia(InResetWindow)
  \/ CameraGranted

SpecLong == Init /\ [][NextLong]_vars

\* the program under the scheduling the runtime guarantees: an image load
\* that can complete does complete, and the remote call settles
FairSpec ==
  /\ Spec
  /\ WF_vars(CompressDone)
  /\ WF_vars(ClassifySuccess \/ ClassifyFail)

\* the auto-mode scenario: the live camera, the Auto-Scan button, the interval
\* and classifications that all succeed
NextAuto ==
  \/ CameraGranted
  \/ ToggleAutoMode
  \/ LiveTimerTick(MaxLongRun)
  \/ CompressDone
  \/ ClassifySuccess

SpecAuto == Init /\ [][NextAuto]_vars

\* the App with the Clear History button of its dashboard header
NextHistory ==
  \/ Next
  \/ ClearHistory

SpecHistory == Init /\ [][NextHistory]_vars

\* live captures whose observations carry what the remote model sent
NextObserve ==
  \/ CameraGranted
  \/ ManualLiveCapture(MaxObserved)
  \/ CompressDone
  \/ ClassifyObject

SpecObserve == Init /\ [][NextObserve]_vars

\* compressImage applied to decoded images of every size near the target width
NextCompress == CompressImage

SpecCompress == InitCompress /\ [][NextCompress]_vars

\* ----------------------------------------------------------- properties
\* a handleCapture invocation whose classification request is outstanding or
\* will be issued once preprocessing completes
RequestInFlight(p) ==
  p.stage = "classify" \/ (p.stage = "compress" /\ ImageLoads(p.frame))

\* a step in which a new handleCapture invocation starts
CaptureStarts == Len(pending') = Len(pending) + 1

\* a step in which a handleCapture invocation returns
CaptureReturns == Len(pending') = Len(pending) - 1

TimerTriggers == {"liveTimer", "mediaTimer"}

\* C1: single-flight: at most one capture is in flight in every reachable
\* state, and no step taken while isAnalyzing is true (button or timer tick)
\* starts a new handleCapture call.
C1_SingleFlight ==
  /\ [](Len(pending) <= 1)
  /\ [][state.isAnalyzing => ~CaptureStarts]_vars

\* C1 witness: an auto-mode timer tick arrived while a classification was
\* outstanding and was ignored.
C1_Witness ==
  /\ lastEvt.op = "LiveTimerTick"
  /\ state.isAnalyzing
  /\ Len(pending) = 1
  /\ pending[1].stage = "classify"

\* C2: when a call that was pending while the input source was switched
\* (mode button, upload, media reset) resolves, history, currentEmotion and
\* error are left unchanged.
C2_StaleResultDiscarded ==
  [][(CaptureReturns /\ lastEvt'.stale)
       => /\ state'.history = state.history
          /\ state'.currentEmotion = state.currentEmotion
          /\ state'.error = state.error]_vars

\* C3: after any sequence of operations the length of history never exceeds
\* the cap of 100.
C3_HistoryCapped == Len(state.history) <= HISTORY_CAP

\* C3 witness: the cap has been reached and a further result has arrived.
C3_Witness ==
  /\ Len(state.history) = HISTORY_CAP
  /\ sinceReset > HISTORY_CAP
  /\ lastEvt.op = "ClassifySuccess"

\* C4: FIFO eviction: after n results with no reset in between, history is the
\* last min(n, 100) observations in the order they were received; after 105
\* results its first element is the 6th observation.
C4_FifoEviction ==
  LET len == Min(sinceReset, HISTORY_CAP)
  IN  /\ Len(state.history) = len
      /\ \A i \in 1..len : state.history[i] = Observation(now - len + i)

\* C4 witness: 105 results without a reset, the first five evicted.
C4_Witness ==
  /\ sinceReset = 105
  /\ Len(state.history) = 100
  /\ state.history[1] = Observation(6)

\* C5: every capture started by handleCapture eventually returns the pipeline
\* to Idle, for every input frame, provided the remote call settles.
C5_CaptureReturnsToIdle == state.isAnalyzing ~> ~state.isAnalyzing

\* C6: isAnalyzing is true exactly in the states in which a classification
\* request is in flight.
C6_AnalyzingIffInFlight ==
  state.isAnalyzing <=> (\E i \in 1..Len(pending) : RequestInFlight(pending[i]))

\* C7: after a capture fails autoMode is false, whatever it was before.
C7_FailureDisablesAuto == lastEvt.op = "ClassifyFail" => ~state.autoMode

\* C7 witness: a capture failed while autoMode was on.
C7_Witness ==
  /\ lastEvt.op = "ClassifyFail"
  /\ lastEvt.auto
  /\ state.error = AnalyzeFailedMsg

\* C8: after a capture failure no timer starts a capture until the user acts
\* again, in Live and in Media mode.
C8_NoTimerCaptureAfterFailure ==
  [][quiet => ~(CaptureStarts /\ pending'[Len(pending')].trigger \in TimerTriggers)]_vars

\* C9: no auto-mode interval is registered while autoMode is false or the mode
\* is not Live, and at most one is registered at any time.
C9_TimerCleared ==
  /\ (~state.autoMode \/ state.mode # "Live") => timers = {}
  /\ Cardinality(timers) <= 1

\* C9 witness: autoMode has just been toggled off while its interval ran.
C9_Witness ==
  /\ lastEvt.op = "ToggleAutoMode"
  /\ lastEvt.auto
  /\ ~state.autoMode
  /\ autoModeTimer # NoTimer

\* C10: with autoMode on in Live mode and the pipeline idle, a timer period
\* starts exactly one capture; when every classification succeeds, after n
\* periods (n = 2 in particular) history holds the n results in arrival order
\* and currentEmotion is the last of them.
C10_AutoModePeriods ==
  /\ [][(lastEvt'.op = "LiveTimerTick" /\ state.autoMode /\ state.mode = "Live"
         /\ ~state.isAnalyzing) => CaptureStarts]_vars
  /\ [](\A n \in 1..HISTORY_CAP :
          (now = n /\ pending = <<>>)
            => /\ Len(state.history) = n
               /\ \A i \in 1..n : state.history[i] = Observation(i)
               /\ state.currentEmotion = state.history[n])

\* C10 witness: two periods have elapsed and both classifications succeeded.
C10_Witness ==
  /\ now = 2
  /\ pending = <<>>
  /\ lastEvt.op = "ClassifySuccess"
  /\ state.autoMode
  /\ Len(state.history) = 2


\* C11: with no active frame source (the live video element has no decoded
\* frame because the camera is not granted yet) a manual or timer capture
\* trigger is a no-op: the App state is unchanged and no call is started.
C11_NoSourceNoOp ==
  [][(lastEvt'.op \in {"ManualLiveCapture", "LiveTimerTick"}
      /\ state.mode = "Live" /\ camera # "streaming")
       => (state' = state /\ pending' = pending)]_vars


\* C12: analyzeEmotion reports a transport failure and an unparseable
\* response body with distinct messages, so the error stored after an
\* unparseable body is not the message of a transport failure.
C12_DistinctErrorKinds ==
  (lastEvt.op = "ClassifyFail" /\ lastEvt.response # "transport")
    => state.error # AnalyzeEmotion("transport", now).message

\* C13: a valid JSON body wrapped in fence delimiter lines gives the same
\* observation as the bare JSON.
C13_FenceTolerant ==
  lastEvt.response = "fenced"
    => /\ lastEvt.op = "ClassifySuccess"
       /\ state.currentEmotion = AnalyzeEmotion("bare", now).value


\* C14: once CameraView is unmounted no camera stream it acquired is left
\* running, whichever way getUserMedia and the effect cleanup interleave
C14_StreamReleased == strayStreams = 0

\* C15: every object URL that is not the current media has been revoked, so
\* the only unrevoked URL, if any, is state.mediaUrl
C15_UrlsRevoked == objectUrls \subseteq {state.mediaUrl}


Abs(n) == IF n < 0 THEN -n ELSE n

\* C16: for a source wider than the target the output is the target width and
\* the height is height * W / width rounded to a neighbouring integer (so it
\* is exact when the ratio is an integer); a source no wider than the target
\* keeps its dimensions
C16_ScaledDimensions ==
  resize.outW # 0 =>
    IF resize.srcW > maxWidth
      THEN /\ resize.outW = maxWidth
           /\ Abs(resize.outH * resize.srcW - resize.srcH * maxWidth) < resize.srcW
      ELSE resize.outW = resize.srcW /\ resize.outH = resize.srcH


\* C17: a capture that fails is turned into one state update: isAnalyzing
\* false, error the message of the exception, autoMode false, and history,
\* currentEmotion, mode and the media fields as they were
C17_FailureFrame ==
  [][lastEvt'.op = "ClassifyFail"
       => state' = [state EXCEPT !.isAnalyzing = FALSE,
                                 !.error = AnalyzeFailedMsg,
                                 !.autoMode = FALSE]]_vars

C17_Witness ==
  /\ lastEvt.op = "ClassifyFail"
  /\ lastEvt.auto
  /\ ~state.autoMode
  /\ ~state.isAnalyzing
  /\ state.error = AnalyzeFailedMsg
  /\ Len(state.history) > 0
  /\ state.currentEmotion = state.history[Len(state.history)]

\* C18: a successful classification is one state update: isAnalyzing false,
\* currentEmotion the new observation, the observation appended at the end of
\* history with the oldest entry dropped once the cap is exceeded, and error,
\* autoMode, mode and the media fields as they were
C18_SuccessFrame ==
  [][lastEvt'.op = "ClassifySuccess"
       => state' = [state EXCEPT
                      !.isAnalyzing = FALSE,
                      !.currentEmotion = Observation(now'),
                      !.history = IF Len(state.history) < HISTORY_CAP
                                    THEN Append(state.history, Observation(now'))
                                    ELSE Append(Tail(state.history), Observation(now'))]]_vars

C18_Witness ==
  /\ lastEvt.op = "ClassifySuccess"
  /\ lastEvt.auto
  /\ state.autoMode
  /\ sinceReset > HISTORY_CAP
  /\ Len(state.history) = HISTORY_CAP
  /\ state.currentEmotion = Observation(now)
  /\ state.history[HISTORY_CAP] = Observation(now)
  /\ state.history[1] = Observation(now - HISTORY_CAP + 1)

\* C19: the step that starts a capture sets isAnalyzing true and error null
\* while the request is still before its first asynchronous step, and leaves
\* history, currentEmotion, autoMode and every other field as they were
C19_BeginFrame ==
  [][CaptureStarts
       => /\ state' = [state EXCEPT !.isAnalyzing = TRUE, !.error = NoError]
          /\ pending'[Len(pending')].stage = "compress"]_vars

C19_Witness ==
  /\ lastEvt.op = "MediaTimerTick"
  /\ quiet
  /\ Len(pending) = 1
  /\ pending[1].stage = "compress"
  /\ state.isAnalyzing
  /\ state.error = NoError
  /\ Len(state.history) > 0

\* C20: an error message that is set stays as it is through every step that
\* does not start a capture
C20_ErrorPersists ==
  [][(state.error # NoError /\ ~CaptureStarts) => state'.error = state.error]_vars

C20_Witness ==
  /\ lastEvt.op = "ResetMedia"
  /\ state.error # NoError
  /\ state.mediaUrl = NoUrl
  /\ state.mode = "Media"


\* a step of handleFileUpload with a file selected, or of resetMedia
SessionResets ==
  \/ lastEvt'.op = "HandleFileUpload" /\ objectUrls' # objectUrls
  \/ lastEvt'.op = "ResetMedia"

\* C21: handleFileUpload with a file selected and resetMedia each leave
\* history empty and currentEmotion null, and leave error, autoMode and
\* isAnalyzing as they were
C21_ResetFrame ==
  [][SessionResets
       => /\ state'.history = <<>>
          /\ state'.currentEmotion = NoEmotion
          /\ state'.error = state.error
          /\ state'.autoMode = state.autoMode
          /\ state'.isAnalyzing = state.isAnalyzing]_vars

C21_Witness ==
  /\ lastEvt.op = "HandleFileUpload"
  /\ state.mediaUrl \in objectUrls
  /\ ~mediaDecoded
  /\ now > 0
  /\ state.history = <<>>
  /\ state.currentEmotion = NoEmotion
  /\ state.autoMode
  /\ state.isAnalyzing
  /\ pending # <<>>

\* a step in which a mode button changes the input source
SourceSwitches == lastEvt'.op = "SetMode" /\ state'.mode # state.mode

\* C22: switching between Live and Media with the mode buttons leaves history
\* empty and currentEmotion null, and leaves error and autoMode as they were
C22_ModeSwitchResets ==
  [][SourceSwitches
       => /\ state'.history = <<>>
          /\ state'.currentEmotion = NoEmotion
          /\ state'.error = state.error
          /\ state'.autoMode = state.autoMode]_vars


\* C25: currentEmotion is null exactly when history is empty, and otherwise
\* it is the last element of history
C25_CurrentIsLast ==
  IF state.history = <<>>
    THEN state.currentEmotion = NoEmotion
    ELSE state.currentEmotion = state.history[Len(state.history)]

C25_Witness ==
  /\ lastEvt.op = "ClassifySuccess"
  /\ lastEvt.stale
  /\ sinceReset = 1
  /\ now > 1
  /\ Len(state.history) = 1
  /\ state.currentEmotion = Observation(now)


\* the observations the App holds
StoredObservations ==
  {state.history[i] : i \in 1..Len(state.history)}
    \cup (IF state.currentEmotion = NoEmotion THEN {} ELSE {state.currentEmotion})

\* C23: the response schema requires faceDetected and faceRecognitionScore
\* and declares boundingBox, and every observation that was parsed and stored
\* has a faceDetected value
C23_FaceDetectedDefined ==
  \A o \in StoredObservations :
    /\ "faceDetected" \in DOMAIN o
    /\ {"faceDetected", "faceRecognitionScore"} \subseteq SchemaRequired
    /\ "boundingBox" \in SchemaProperties

\* C24: every stored observation has its confidence and each intensity of
\* its secondaryEmotions within [0, 1]
C24_ScoresClamped ==
  \A o \in StoredObservations :
    /\ o.confidence \in 0..1
    /\ \A k \in 1..Len(o.secondaryEmotions) : o.secondaryEmotions[k].intensity \in 0..1


\* what an attempt of startCamera reads and writes
AttemptOf(cv) ==
  <<cv.isRequesting, cv.stage, cv.error, cv.permissionRequested, cv.attempts,
    cv.idealFailed, cv.fallbackFailed>>

\* a startCamera call made while an acquisition is pending does nothing
ReentrantCallIgnored ==
  (cameraView'.evt \in {"EffectReplayed", "HandleManualRetry"} /\ cameraView.isRequesting)
    => AttemptOf(cameraView') = AttemptOf(cameraView)

\* the guard is held exactly while an attempt is under way
GuardReleased == cameraView.isRequesting <=> cameraView.stage # "idle"

\* an error is shown only after the ideal and the fallback request both failed
ErrorOnlyWhenBothFail ==
  cameraView.error # "null" => (cameraView.idealFailed /\ cameraView.fallbackFailed)

\* C26: startCamera is not re-entered while an acquisition is pending, the
\* guard is released after every attempt, and a camera error is reported only
\* when both getUserMedia attempts fail
C26_StartCameraGuarded ==
  /\ [][ReentrantCallIgnored]_vars
  /\ [](GuardReleased /\ ErrorOnlyWhenBothFail)

====
